---- MODULE Spec2Model ----
(***************************************************************************)
(* Model of src/brainfuck.c: main, do_brainfuck and the recursive          *)
(* do_brainfuck_block, with the C call stack made explicit as a sequence   *)
(* of frames.  Script characters are byte codes, tape cells are values of  *)
(* the C type `byte` (= char, whose signedness is fixed by the build).     *)
(***************************************************************************)
EXTENDS Integers, Sequences, FiniteSets, TLC

\* ------------------------------------------------------------------------
\* Character codes of the case labels of do_brainfuck_block
\* ------------------------------------------------------------------------
GT == 62
LT == 60
PLUS == 43
MINUS == 45
DOT == 46
COMMA == 44
LBR == 91
RBR == 93
CR == 13
LF == 10
SP == 32
TAB == 9
VT == 11
FF == 12

MAX_BRAINFUCK == 30000

\* ------------------------------------------------------------------------
\* Bounds of the model
\* ------------------------------------------------------------------------
\* longest script of the exhaustive family over Alphabet
MaxLen == 3
\* longest whitespace-only script
MaxWsLen == 2
\* length of the runs of '+' and of '-' on the zeroed cell
MaxRun == 256
\* length of the runs of '+' and of '-' that follow a ','
MaxRep == 4
\* the multiplication scripts  +^k [ > +^m < - ]
MaxMulK == 17
MaxMulM == 16
\* longest loop body of the scripts  + [ body ]
MaxBody == 3
\* the counter scripts  +^N [-]  for N up to MaxClear (and for N = 255)
MaxClear == 5
\* the sink accepts MaxOut bytes and the source delivers MaxIn bytes before
\* the hook blocks
MaxOut == 3
MaxIn == 2
\* number of bytes on either side of the tape that are mapped memory: an
\* access further out faults
MaxStray == 2

\* ------------------------------------------------------------------------
\* Character classes (the switch of lines 132-221)
\* ------------------------------------------------------------------------
Whitespace == {CR, LF, SP, TAB, VT, FF}

Instructions == {GT, LT, PLUS, MINUS, DOT, COMMA, LBR, RBR}

Byte == 0..255

\* some bytes that are neither instructions nor whitespace: '@', NUL, 0xC8
IllegalSample == {64, 0, 200}

\* values the read hook (getchar) can return: a byte or EOF
InputValues == (-1)..255

\* contents found in memory next to the tape that the program never wrote
GarbageBytes == {0, 1, 128, 255}

\* contents of the buffer when nothing was read into it
UnreadBuffers == {<< >>, <<64>>, <<PLUS, DOT>>}

\* ------------------------------------------------------------------------
\* Scripts
\* ------------------------------------------------------------------------
Rep(c, k) == [i \in 1..k |-> c]

SeqsUpTo(S, k) == UNION {[1..j -> S] : j \in 0..k}

Alphabet == {GT, LT, PLUS, MINUS, DOT, LBR, RBR, SP, LF, 64, 200}

MulScript(k, m) == Rep(PLUS, k) \o <<LBR, GT>> \o Rep(PLUS, m) \o <<LT, MINUS, RBR>>

\* loop bodies: '@', brackets and '-'
BodyAlphabet == {64, LBR, RBR, MINUS}

LoopScript(body) == <<PLUS, LBR>> \o body \o <<RBR>>

\* N '+' then "[-]", and the same with a '.' at the head of the body
ClearScript(N) == Rep(PLUS, N) \o <<LBR, MINUS, RBR>>

ClearCounted(N) == Rep(PLUS, N) \o <<LBR, DOT, MINUS, RBR>>

ClearCounts == (0..MaxClear) \cup {255}

\* a loop on a non-zero cell whose body is whitespace, followed by a '.'
StuckScript(body) == <<PLUS, LBR>> \o body \o <<RBR, DOT>>

Scripts ==
    SeqsUpTo(Alphabet, MaxLen)
    \cup {ClearScript(N) : N \in ClearCounts}
    \cup {ClearCounted(N) : N \in 0..MaxOut}
    \cup {StuckScript(b) : b \in SeqsUpTo(Whitespace, MaxWsLen)}
    \cup {LoopScript(b) : b \in SeqsUpTo(BodyAlphabet, MaxBody)}
    \cup SeqsUpTo(Whitespace, MaxWsLen)
    \cup {<<c>> : c \in Byte}
    \cup {Rep(PLUS, MaxRun), Rep(MINUS, MaxRun)}
    \cup {<<COMMA>> \o Rep(PLUS, MaxRep), <<COMMA>> \o Rep(MINUS, MaxRep)}
    \cup {<<COMMA, PLUS, MINUS>>, <<COMMA, MINUS, PLUS>>, <<COMMA, DOT>>}
    \cup {MulScript(k, m) : k \in 0..MaxMulK, m \in {0, 1, 2, MaxMulM}}

\* "+[->+]" carries a 1 from cell to cell to the right end of the tape and
\* beyond; the short scripts beside it exercise the rest of the interpreter
WalkScripts ==
    {<<PLUS, LBR, MINUS, GT, PLUS, RBR>>, <<COMMA>>}
    \cup SeqsUpTo(Alphabet, 2)

VARIABLES
    script,      \* the buffer `codes` read from the file
    argc,        \* main's argument count
    file,        \* what fopen returned: "open" or "null"
    charSigned,  \* whether `char` is signed in this build
    pc,          \* "main", "block" (inside do_brainfuck), "exited", "crashed"
    stack,       \* active do_brainfuck_block invocations, innermost last
    ret,         \* the value last returned (by a block, finally by main)
    mem,         \* the tape, sparse: cells not in the domain hold 0
    ptr,         \* the_pointer - mem
    emitted,     \* arguments passed to brainfuck->output, in order
    consumed,    \* values returned by brainfuck->input, in order
    diag         \* lines written to stderr

vars == <<script, argc, file, charSigned, pc, stack, ret, mem, ptr, emitted, consumed, diag>>

\* ------------------------------------------------------------------------
\* The type `byte`
\* ------------------------------------------------------------------------
\* conversion of an int to `byte`
ToCharSaturating(i) ==
    IF charSigned
    THEN (IF i > 127 THEN 127 ELSE IF i < -128 THEN -128 ELSE i)
    ELSE (IF i > 255 THEN 255 ELSE IF i < 0 THEN 0 ELSE i)

ToChar(i) ==
    LET b == i % 256
    IN  IF charSigned /\ b > 127 THEN b - 256 ELSE b

\* "(byte)brainfuck->input()" at line 150
InputCellSevenBit(v) == ToChar(v % 128)

InputCell(v) == ToChar(v)

\* the object representation of a `byte`: what putchar writes for it
ByteOf(c) == c % 256

\* ------------------------------------------------------------------------
\* The tape
\* ------------------------------------------------------------------------
InTape(i) == i >= 0 /\ i < MAX_BRAINFUCK

Cell(i) == IF i \in DOMAIN mem THEN mem[i] ELSE 0

\* outside the tape, but in memory the process can access
Mapped(i) == i >= 0 - MaxStray /\ i < MAX_BRAINFUCK + MaxStray

\* the values a read of *the_pointer can yield
ReadChoices(i) ==
    IF InTape(i) \/ i \in DOMAIN mem
    THEN {Cell(i)}
    ELSE {ToChar(g) : g \in GarbageBytes}

Store(i, v) ==
    IF InTape(i) /\ v = 0
    THEN [j \in (DOMAIN mem) \ {i} |-> mem[j]]
    ELSE [j \in (DOMAIN mem) \cup {i} |-> IF j = i THEN v ELSE mem[j]]

\* ------------------------------------------------------------------------
\* Frames of do_brainfuck_block
\* ------------------------------------------------------------------------
CharAt(i) == script[i + 1]

Frame(code, n) == [code |-> code, n |-> n, cnt |-> 0, at |-> "scan", loop_len |-> 0]

Top == stack[Len(stack)]

SetTop(f) == [stack EXCEPT ![Len(stack)] = f]

Cur == CharAt(Top.code + Top.cnt)

Dispatching == pc = "block" /\ Top.at = "scan" /\ Top.cnt < Top.n

\* the action is about to access *the_pointer (lines 141, 144, 147, 150, 190)
Derefs ==
    /\ pc = "block"
    /\ \/ Top.at = "loop"
       \/ Dispatching /\ CharAt(Top.code + Top.cnt) \in {PLUS, MINUS, DOT, COMMA}

\* "++cnt" at line 223
Advance == SetTop([Top EXCEPT !.cnt = @ + 1])

\* "return v": the innermost invocation ends; the top-level block's value is
\* returned by do_brainfuck (line 242) and by main (line 107)
Return(v) ==
    /\ ret' = v
    /\ stack' = SubSeq(stack, 1, Len(stack) - 1)
    /\ pc' = IF Len(stack) = 1 THEN "exited" ELSE "block"

\* ------------------------------------------------------------------------
\* The bracket-matching scan (lines 156-180)
\* ------------------------------------------------------------------------
RECURSIVE ScanLoopNoNest(_, _, _)
ScanLoopNoNest(loop_end, open_cnt, end) ==
    IF loop_end = end
    THEN [loop_end |-> loop_end, open_cnt |-> open_cnt]
    ELSE IF CharAt(loop_end) = RBR
         THEN [loop_end |-> loop_end, open_cnt |-> 0]
         ELSE ScanLoopNoNest(loop_end + 1, open_cnt, end)

RECURSIVE ScanLoop(_, _, _)
ScanLoop(loop_end, open_cnt, end) ==
    IF loop_end = end
    THEN [loop_end |-> loop_end, open_cnt |-> open_cnt]
    ELSE LET c == CharAt(loop_end)
             oc == IF c = LBR THEN open_cnt + 1
                   ELSE IF c = RBR THEN open_cnt - 1
                   ELSE open_cnt
         IN  IF oc = 0
             THEN [loop_end |-> loop_end, open_cnt |-> 0]
             ELSE ScanLoop(loop_end + 1, oc, end)

MatchScanNoNest(loop_begin, end) == ScanLoopNoNest(loop_begin + 1, 1, end)

MatchScan(loop_begin, end) == ScanLoop(loop_begin + 1, 1, end)

\* the frame of the recursive call of line 192
BodyFrameFromBracket(f) == Frame(f.code + f.cnt, f.loop_len + 1)

BodyFrameWithBracket(f) == Frame(f.code + f.cnt + 1, f.loop_len)

BodyFrame(f) == Frame(f.code + f.cnt + 1, f.loop_len - 1)

\* "cnt += loop_len + 1" at line 195
AfterLoopSkipsOne(f) == [f EXCEPT !.cnt = @ + f.loop_len + 2, !.at = "scan", !.loop_len = 0]

AfterLoopOnBracket(f) == [f EXCEPT !.cnt = @ + f.loop_len, !.at = "scan", !.loop_len = 0]

AfterLoop(f) == [f EXCEPT !.cnt = @ + f.loop_len + 1, !.at = "scan", !.loop_len = 0]

\* ------------------------------------------------------------------------
\* Initial states
\* ------------------------------------------------------------------------
InitWith(files) ==
    /\ file \in {"open", "null"}
    /\ script \in (IF file = "open" THEN files ELSE UnreadBuffers)
    /\ argc \in {1, 2, 3}
    /\ charSigned \in BOOLEAN
    /\ pc = "main"
    /\ stack = << >>
    /\ ret = 0
    /\ mem = << >>
    /\ ptr = 0
    /\ emitted = << >>
    /\ consumed = << >>
    /\ diag = << >>

Init == InitWith(Scripts)

WalkInit == InitWith(WalkScripts)

\* ------------------------------------------------------------------------
\* main and do_brainfuck
\* ------------------------------------------------------------------------
\* lines 69-73
MainUsage ==
    /\ pc = "main"
    /\ argc # 2
    /\ diag' = Append(diag, [kind |-> "usage", ch |-> argc - 1])
    /\ ret' = -1
    /\ pc' = "exited"
    /\ UNCHANGED <<script, argc, file, charSigned, stack, mem, ptr, emitted, consumed>>

\* lines 83-101 and 228-242: the file is read into the buffer, the tape is
\* zeroed, the pointer set to its first cell and the top-level block entered
MainRun ==
    /\ pc = "main"
    /\ argc = 2
    /\ file = "open"
    /\ pc' = "block"
    /\ stack' = <<Frame(0, Len(script))>>
    /\ mem' = << >>
    /\ ptr' = 0
    /\ UNCHANGED <<script, argc, file, charSigned, ret, emitted, consumed, diag>>

\* lines 83-87: fopen returned NULL; the message is written and main goes on
\* to line 88
MainOpenFail ==
    /\ pc = "main"
    /\ argc = 2
    /\ file = "null"
    /\ diag' = Append(diag, [kind |-> "open_failed", ch |-> 0])
    /\ pc' = "fseek"
    /\ UNCHANGED <<script, argc, file, charSigned, stack, ret, mem, ptr, emitted, consumed>>

\* lines 88-97: fseek, ftell, rewind and fread on the null FILE* are
\* undefined: the build may fault ...
FileOpFault ==
    /\ pc = "fseek"
    /\ pc' = "crashed"
    /\ UNCHANGED <<script, argc, file, charSigned, stack, ret, mem, ptr, emitted, consumed, diag>>

\* ... or the calls fail and main reaches line 101 with a buffer nothing
\* was read into
FileOpContinue ==
    /\ pc = "fseek"
    /\ pc' = "block"
    /\ stack' = <<Frame(0, Len(script))>>
    /\ mem' = << >>
    /\ ptr' = 0
    /\ UNCHANGED <<script, argc, file, charSigned, ret, emitted, consumed, diag>>

\* ------------------------------------------------------------------------
\* do_brainfuck_block
\* ------------------------------------------------------------------------
\* line 126 false, line 225
BlockEnd ==
    /\ pc = "block"
    /\ Top.at = "scan"
    /\ Top.cnt >= Top.n
    /\ Return(0)
    /\ UNCHANGED <<script, argc, file, charSigned, mem, ptr, emitted, consumed, diag>>

\* lines 134-136
MoveRightWrapping ==
    /\ Dispatching
    /\ Cur = GT
    /\ ptr' = (ptr + 1) % MAX_BRAINFUCK
    /\ stack' = Advance
    /\ UNCHANGED <<script, argc, file, charSigned, pc, ret, mem, emitted, consumed, diag>>

MoveRight ==
    /\ Dispatching
    /\ Cur = GT
    /\ ptr' = ptr + 1
    /\ stack' = Advance
    /\ UNCHANGED <<script, argc, file, charSigned, pc, ret, mem, emitted, consumed, diag>>

\* lines 137-139
MoveLeft ==
    /\ Dispatching
    /\ Cur = LT
    /\ ptr' = ptr - 1
    /\ stack' = Advance
    /\ UNCHANGED <<script, argc, file, charSigned, pc, ret, mem, emitted, consumed, diag>>

\* lines 140-142
Incr ==
    /\ Dispatching
    /\ Mapped(ptr)
    /\ Cur = PLUS
    /\ \E v \in ReadChoices(ptr) : mem' = Store(ptr, ToChar(v + 1))
    /\ stack' = Advance
    /\ UNCHANGED <<script, argc, file, charSigned, pc, ret, ptr, emitted, consumed, diag>>

\* lines 143-145
Decr ==
    /\ Dispatching
    /\ Mapped(ptr)
    /\ Cur = MINUS
    /\ \E v \in ReadChoices(ptr) : mem' = Store(ptr, ToChar(v - 1))
    /\ stack' = Advance
    /\ UNCHANGED <<script, argc, file, charSigned, pc, ret, ptr, emitted, consumed, diag>>

\* lines 146-148: the argument is the cell promoted to int
OutputPostIncrement ==
    /\ Dispatching
    /\ Mapped(ptr)
    /\ Cur = DOT
    /\ Len(emitted) < MaxOut
    /\ \E v \in ReadChoices(ptr) :
          /\ emitted' = Append(emitted, v)
          /\ mem' = Store(ptr, v)
    /\ ptr' = ptr + 1
    /\ stack' = Advance
    /\ UNCHANGED <<script, argc, file, charSigned, pc, ret, consumed, diag>>

Output ==
    /\ Dispatching
    /\ Mapped(ptr)
    /\ Cur = DOT
    /\ Len(emitted) < MaxOut
    /\ \E v \in ReadChoices(ptr) :
          /\ emitted' = Append(emitted, v)
          /\ mem' = Store(ptr, v)
    /\ stack' = Advance
    /\ UNCHANGED <<script, argc, file, charSigned, pc, ret, ptr, consumed, diag>>

\* lines 149-151
Input ==
    /\ Dispatching
    /\ Mapped(ptr)
    /\ Cur = COMMA
    /\ Len(consumed) < MaxIn
    /\ \E v \in InputValues :
          /\ consumed' = Append(consumed, v)
          /\ mem' = Store(ptr, InputCell(v))
    /\ stack' = Advance
    /\ UNCHANGED <<script, argc, file, charSigned, pc, ret, ptr, emitted, diag>>

\* lines 153-188: the matching scan and the unmatched-'[' check
LoopOpen ==
    /\ Dispatching
    /\ Cur = LBR
    /\ LET loop_begin == Top.code + Top.cnt
           m == MatchScan(loop_begin, Top.code + Top.n)
       IN  IF m.open_cnt # 0
           THEN /\ diag' = Append(diag, [kind |-> "unmatched_open", ch |-> LBR])
                /\ Return(-2)
           ELSE /\ stack' = SetTop([Top EXCEPT !.at = "loop",
                                               !.loop_len = m.loop_end - loop_begin])
                /\ UNCHANGED <<pc, ret, diag>>
    /\ UNCHANGED <<script, argc, file, charSigned, mem, ptr, emitted, consumed>>

\* lines 190-196: the zero-test, then either the recursive call or the exit
LoopTestInverted ==
    /\ pc = "block"
    /\ Top.at = "loop"
    /\ Mapped(ptr)
    /\ \E v \in ReadChoices(ptr) :
          /\ mem' = Store(ptr, v)
          /\ stack' = IF v = 0
                      THEN Append(SetTop([Top EXCEPT !.at = "ret"]), BodyFrame(Top))
                      ELSE SetTop(AfterLoop(Top))
    /\ UNCHANGED <<script, argc, file, charSigned, pc, ret, ptr, emitted, consumed, diag>>

LoopTest ==
    /\ pc = "block"
    /\ Top.at = "loop"
    /\ Mapped(ptr)
    /\ \E v \in ReadChoices(ptr) :
          /\ mem' = Store(ptr, v)
          /\ stack' = IF v # 0
                      THEN Append(SetTop([Top EXCEPT !.at = "ret"]), BodyFrame(Top))
                      ELSE SetTop(AfterLoop(Top))
    /\ UNCHANGED <<script, argc, file, charSigned, pc, ret, ptr, emitted, consumed, diag>>

\* line 193
LoopRetGeneric ==
    /\ pc = "block"
    /\ Top.at = "ret"
    /\ IF ret # 0
       THEN Return(-1)
       ELSE /\ stack' = SetTop([Top EXCEPT !.at = "loop"])
            /\ UNCHANGED <<pc, ret>>
    /\ UNCHANGED <<script, argc, file, charSigned, mem, ptr, emitted, consumed, diag>>

LoopRetOnce ==
    /\ pc = "block"
    /\ Top.at = "ret"
    /\ IF ret # 0
       THEN Return(ret)
       ELSE /\ stack' = SetTop(AfterLoop(Top))
            /\ UNCHANGED <<pc, ret>>
    /\ UNCHANGED <<script, argc, file, charSigned, mem, ptr, emitted, consumed, diag>>

LoopRetBreak ==
    /\ pc = "block"
    /\ Top.at = "ret"
    /\ stack' = SetTop(IF ret # 0 THEN AfterLoop(Top) ELSE [Top EXCEPT !.at = "loop"])
    /\ UNCHANGED <<script, argc, file, charSigned, pc, ret, mem, ptr, emitted, consumed, diag>>

LoopRet ==
    /\ pc = "block"
    /\ Top.at = "ret"
    /\ IF ret # 0
       THEN Return(ret)
       ELSE /\ stack' = SetTop([Top EXCEPT !.at = "loop"])
            /\ UNCHANGED <<pc, ret>>
    /\ UNCHANGED <<script, argc, file, charSigned, mem, ptr, emitted, consumed, diag>>

\* lines 198-202
UnmatchedCloseSameCode ==
    /\ Dispatching
    /\ Cur = RBR
    /\ diag' = Append(diag, [kind |-> "unmatched_close", ch |-> RBR])
    /\ Return(-2)
    /\ UNCHANGED <<script, argc, file, charSigned, mem, ptr, emitted, consumed>>

UnmatchedClose ==
    /\ Dispatching
    /\ Cur = RBR
    /\ diag' = Append(diag, [kind |-> "unmatched_close", ch |-> RBR])
    /\ Return(-3)
    /\ UNCHANGED <<script, argc, file, charSigned, mem, ptr, emitted, consumed>>

\* lines 207-214
IsWhitespaceNoVT(c) == c \in Whitespace \ {VT}

IsWhitespace(c) == c \in Whitespace

SkipWhitespace ==
    /\ Dispatching
    /\ Cur \notin Instructions
    /\ IsWhitespace(Cur)
    /\ stack' = Advance
    /\ UNCHANGED <<script, argc, file, charSigned, pc, ret, mem, ptr, emitted, consumed, diag>>

\* lines 215-218
IllegalContinue ==
    /\ Dispatching
    /\ Cur \notin Instructions
    /\ ~IsWhitespace(Cur)
    /\ diag' = Append(diag, [kind |-> "illegal", ch |-> Cur])
    /\ stack' = Advance
    /\ UNCHANGED <<script, argc, file, charSigned, pc, ret, mem, ptr, emitted, consumed>>

Illegal ==
    /\ Dispatching
    /\ Cur \notin Instructions
    /\ ~IsWhitespace(Cur)
    /\ diag' = Append(diag, [kind |-> "illegal", ch |-> Cur])
    /\ Return(-4)
    /\ UNCHANGED <<script, argc, file, charSigned, mem, ptr, emitted, consumed>>

\* an access through the_pointer outside mem (lines 141, 144, 147, 150, 190)
\* is undefined: besides touching the neighbouring memory, as the actions
\* above do, the build may fault
Fault ==
    /\ Derefs
    /\ ~InTape(ptr)
    /\ pc' = "crashed"
    /\ UNCHANGED <<script, argc, file, charSigned, stack, ret, mem, ptr, emitted, consumed, diag>>

Next ==
    \/ MainUsage
    \/ MainRun
    \/ MainOpenFail
    \/ FileOpFault
    \/ FileOpContinue
    \/ BlockEnd
    \/ MoveRight
    \/ MoveLeft
    \/ Incr
    \/ Decr
    \/ Output
    \/ Input
    \/ LoopOpen
    \/ LoopTest
    \/ LoopRet
    \/ UnmatchedClose
    \/ SkipWhitespace
    \/ Illegal
    \/ Fault

Spec == Init /\ [][Next]_vars

\* the program is one sequential thread: it keeps executing while it can
FairSpec == Spec /\ WF_vars(Next)

\* the runs that cross the tape from end to end
WalkSpec == WalkInit /\ [][Next]_vars

\* ------------------------------------------------------------------------
\* Observations used by the properties
\* ------------------------------------------------------------------------
Tape == 0..(MAX_BRAINFUCK - 1)

\* run (do_brainfuck) has returned
Returned == pc = "exited" /\ argc = 2

\* the lines on stderr that do_brainfuck_block wrote
EngineDiag ==
    SelectSeq(diag, LAMBDA d : d.kind \in {"unmatched_open", "unmatched_close", "illegal"})

\* the bytes putchar has written
Written == [i \in 1..Len(emitted) |-> ByteOf(emitted[i])]

TypeOK ==
    /\ pc \in {"main", "fseek", "block", "exited", "crashed"}
    /\ ret \in {0, -1, -2, -3, -4}
    /\ ptr \in Int
    /\ \A i \in DOMAIN mem : mem[i] = ToChar(mem[i])
    /\ \A i \in DOMAIN mem : InTape(i) => mem[i] # 0
    /\ Len(emitted) <= MaxOut
    /\ Len(consumed) <= MaxIn
    /\ Len(diag) <= 2
    /\ Len(EngineDiag) <= 1
    /\ pc = "block" => Len(stack) >= 1
    /\ pc \in {"main", "fseek", "exited"} => stack = << >>

\* ------------------------------------------------------------------------
\* Properties
\* ------------------------------------------------------------------------
\* the only active invocation is the top-level block, at the top of its scan
AtTopScan == pc = "block" /\ Len(stack) = 1 /\ Top.at = "scan"

\* the six whitespace characters: space, tab, CR, LF, vertical tab, form feed
SixWhitespace == {32, 9, 13, 10, 11, 12}

WhitespaceOnly == \A i \in DOMAIN script : script[i] \in SixWhitespace

\* C1: a script of whitespace characters only (or the empty script) makes run
\* return 0, with no call of the emit hook, no call of the read hook, every
\* tape cell 0 and the pointer at cell 0.
C1_Quiet ==
    (argc = 2 /\ WhitespaceOnly) =>
        /\ emitted = << >>
        /\ consumed = << >>
        /\ \A i \in DOMAIN mem : mem[i] = 0
        /\ ptr = 0
        /\ ret = 0
        /\ EngineDiag = << >>
        /\ pc = "crashed" => file = "null"

C1_WhitespaceOnly ==
    /\ [](C1_Quiet)
    /\ (argc = 2 /\ file = "open" /\ WhitespaceOnly) => <>(Returned /\ ret = 0)

C1_Witness ==
    /\ Returned
    /\ WhitespaceOnly
    /\ Len(script) = 2
    /\ script[1] = VT
    /\ ret = 0

\* C2: '+' and '-' are arithmetic modulo 256 on the current cell: k '+' take a
\* cell holding v to (v + k) mod 256 and k '-' take it to (v - k) mod 256, for
\* the zeroed cell and for every v read by ','; 256 '+' on a zero cell leave 0
\* and '+' followed by '-' restores the cell.
C2_AfterRun(k) ==
    /\ script = Rep(PLUS, MaxRun) => ByteOf(Cell(0)) = k % 256
    /\ script = Rep(MINUS, MaxRun) => ByteOf(Cell(0)) = (0 - k) % 256
    /\ (script = <<COMMA>> \o Rep(PLUS, MaxRep) /\ k >= 1)
          => ByteOf(Cell(0)) = (ByteOf(consumed[1]) + (k - 1)) % 256
    /\ (script = <<COMMA>> \o Rep(MINUS, MaxRep) /\ k >= 1)
          => ByteOf(Cell(0)) = (ByteOf(consumed[1]) - (k - 1)) % 256
    /\ (script \in {<<COMMA, PLUS, MINUS>>, <<COMMA, MINUS, PLUS>>} /\ k = 3)
          => ByteOf(Cell(0)) = ByteOf(consumed[1])

C2_Modulo256 ==
    /\ AtTopScan => C2_AfterRun(Top.cnt)
    /\ Returned => C2_AfterRun(Len(script))

C2_Witness ==
    /\ AtTopScan
    /\ script = Rep(PLUS, MaxRun)
    /\ Top.cnt = 256
    /\ Cell(0) = 0

\* C3: the script ",." calls the read hook once and the emit hook once, the
\* byte written equals the byte read, for every byte 0..255, and run returns 0.
C3_Echo ==
    script = <<COMMA, DOT>> =>
        /\ Len(consumed) <= 1
        /\ Len(emitted) <= 1
        /\ pc # "crashed"
        /\ Returned =>
              /\ Len(consumed) = 1
              /\ Len(emitted) = 1
              /\ consumed[1] \in Byte => Written[1] = consumed[1]
              /\ ret = 0

C3_Witness ==
    /\ Returned
    /\ script = <<COMMA, DOT>>
    /\ consumed = <<200>>
    /\ Written = <<200>>

\* C4: the value passed to the emit hook by every executed '.' is an integer
\* in 0..255 equal to the byte value of the current cell.
C4_EmitArgIsByte ==
    [][(Len(emitted') = Len(emitted) + 1 /\ InTape(ptr))
          => /\ emitted'[Len(emitted')] \in Byte
             /\ emitted'[Len(emitted')] = ByteOf(Cell(ptr))]_vars

\* C5: what a loop body does to the tape and the pointer is seen by the
\* enclosing block: k '+' followed by "[>" m '+' "<-]" returns 0 with cell 0
\* at 0, cell 1 at (k * m) mod 256 and the pointer at cell 0.
C5_Multiply ==
    Returned =>
      \A k \in 0..MaxMulK, m \in {0, 1, 2, MaxMulM} :
        script = MulScript(k, m) =>
            /\ ret = 0
            /\ ByteOf(Cell(0)) = 0
            /\ ByteOf(Cell(1)) = (k * m) % 256
            /\ ptr = 0

C5_Witness ==
    /\ Returned
    /\ script = <<PLUS, PLUS, LBR, GT, PLUS, PLUS, LT, MINUS, RBR>>
    /\ ret = 0
    /\ Cell(0) = 0
    /\ Cell(1) = 4
    /\ ptr = 0

\* a bracket matcher independent of the scan of lines 156-180
Count(c, a, b) == Cardinality({j \in a..b : CharAt(j) = c})

DepthAt(i, j) == 1 + Count(LBR, i + 1, j) - Count(RBR, i + 1, j)

Closers(i, end) == {j \in (i + 1)..(end - 1) : DepthAt(i, j) = 0}

HasMatch(i, end) == Closers(i, end) # {}

RefMatchPos(i, end) == CHOOSE j \in Closers(i, end) : \A k \in Closers(i, end) : j <= k

IllegalChar(c) == c \notin {62, 60, 43, 45, 46, 44, 91, 93} \cup SixWhitespace

NoSideEffect == UNCHANGED <<mem, ptr, emitted, consumed>>

\* C6: when dispatch reaches a '[' with no matching ']' before the end of the
\* block, run returns -2 at once, whatever the current cell holds, and
\* nothing is emitted, read, written to the tape or moved afterwards.
C6_UnmatchedOpen ==
    [][(Dispatching /\ Cur = LBR /\ ~HasMatch(Top.code + Top.cnt, Top.code + Top.n))
          => /\ pc' = "exited"
             /\ ret' = -2
             /\ stack' = << >>
             /\ NoSideEffect]_vars

C6_Witness ==
    /\ Returned
    /\ script = <<PLUS, LBR, PLUS>>
    /\ ret = -2
    /\ Cell(0) = 1
    /\ emitted = << >>

\* C7: a ']' reached by direct dispatch makes run return -3 at once, the
\* tape, pointer and I/O staying as the instructions before it left them; a
\* ']' that closes the loop of a '[' of the same block is never dispatched.
C7_UnmatchedClose ==
    [][(Dispatching /\ Cur = RBR)
          => /\ pc' = "exited"
             /\ ret' = -3
             /\ stack' = << >>
             /\ NoSideEffect
             /\ ~\E i \in Top.code..(Top.code + Top.cnt - 1) :
                    /\ CharAt(i) = LBR
                    /\ HasMatch(i, Top.code + Top.n)
                    /\ RefMatchPos(i, Top.code + Top.n) = Top.code + Top.cnt]_vars

C7_Witness ==
    /\ Returned
    /\ script = <<PLUS, RBR>>
    /\ ret = -3
    /\ Cell(0) = 1
    /\ ptr = 0

\* C8: when dispatch reaches a character that is neither an instruction nor
\* whitespace, the block returns -4 and from then on every enclosing block
\* only returns -4: nothing more is emitted, read, written or moved.
C8_IllegalChar ==
    [][/\ (Dispatching /\ IllegalChar(Cur))
             => /\ ret' = -4
                /\ stack' = SubSeq(stack, 1, Len(stack) - 1)
                /\ NoSideEffect
       /\ ret = -4
             => /\ ret' = -4
                /\ stack' = SubSeq(stack, 1, Len(stack) - 1)
                /\ NoSideEffect]_vars

C8_Witness ==
    /\ Returned
    /\ script = LoopScript(<<LBR, 64, RBR>>)
    /\ ret = -4
    /\ Cell(0) = 1
    /\ EngineDiag = <<[kind |-> "illegal", ch |-> 64]>>

\* the brackets of the whole script match
Balanced ==
    /\ \A j \in 0..(Len(script) - 1) : Count(LBR, 0, j) >= Count(RBR, 0, j)
    /\ Count(LBR, 0, Len(script) - 1) = Count(RBR, 0, Len(script) - 1)

\* C9 (as stated): a script with matched brackets that contains a character
\* outside the instruction and whitespace sets, anywhere, never returns 0:
\* every run that returns, returns -4.
C9_AnyIllegalFails ==
    (Returned /\ Balanced /\ \E i \in DOMAIN script : IllegalChar(script[i]))
        => ret = -4

IllegalReported == \E i \in DOMAIN diag : diag[i].kind = "illegal"

\* C9 (amended): once dispatch has reached a character outside the
\* instruction and whitespace sets, at any nesting depth, the run only
\* unwinds and returns -4; a run that returns 0 has dispatched no such
\* character.
C9_DispatchedIllegalFails ==
    /\ IllegalReported =>
          /\ ret = -4
          /\ pc = "exited" \/ (pc = "block" /\ Top.at = "ret")
    /\ (Returned /\ ret = 0) => EngineDiag = << >>

C9_Witness ==
    /\ Returned
    /\ script = LoopScript(<<MINUS, 64>>)
    /\ Balanced
    /\ ret = -4
    /\ Cell(0) = 0

\* C10: run returns 0 exactly when the cursor of the top-level block reached
\* the end of the range and no error was detected; otherwise it returns -2,
\* -3 or -4, one status per kind of error, none of them the exit code -1 of
\* the usage error.
C10_Status ==
    [][/\ (pc = "block" /\ pc' = "exited")
             => /\ ret' \in {0, -2, -3, -4}
                /\ ret' = 0 <=> /\ Len(stack) = 1
                                /\ Top.at = "scan"
                                /\ Top.cnt = Top.n
                                /\ EngineDiag' = << >>
                /\ ret' # 0 => /\ Len(EngineDiag') = 1
                               /\ ret' = -2 <=> EngineDiag'[1].kind = "unmatched_open"
                               /\ ret' = -3 <=> EngineDiag'[1].kind = "unmatched_close"
                               /\ ret' = -4 <=> EngineDiag'[1].kind = "illegal"
       /\ (pc = "main" /\ pc' = "exited")
             => /\ ret' = -1
                /\ diag' = <<[kind |-> "usage", ch |-> argc - 1]>>]_vars

C10_Witness ==
    /\ Returned
    /\ script = LoopScript(<<MINUS>>)
    /\ ret = 0
    /\ diag = << >>
    /\ file = "open"

\* run was entered with the file's contents
Ran == argc = 2 /\ file = "open"

InBody == pc = "block" /\ Len(stack) = 2

\* C11: N '+' followed by "[-]" terminates: every execution of the body takes
\* the cell from c to c - 1, so the body runs exactly N times (N bytes are
\* emitted when the body starts with '.'), the cell ends at 0, the pointer
\* stays at cell 0 and run returns 0.
C11_Inv ==
    /\ \A N \in ClearCounts :
          (Ran /\ script = ClearScript(N)) =>
              /\ ptr = 0
              /\ pc # "crashed"
              /\ (InBody /\ Top.cnt = 0) => ByteOf(Cell(0)) \in 1..N
              /\ (InBody /\ Top.cnt = 1) => ByteOf(Cell(0)) \in 0..(N - 1)
              /\ Returned => (ret = 0 /\ mem = << >>)
    /\ \A N \in 0..MaxOut :
          (Ran /\ script = ClearCounted(N) /\ Returned) =>
              /\ ret = 0
              /\ mem = << >>
              /\ ptr = 0
              /\ emitted = [i \in 1..N |-> N + 1 - i]

ClearFamily == {ClearScript(N) : N \in ClearCounts} \cup {ClearCounted(N) : N \in 0..MaxOut}

C11_CountDown ==
    /\ [](C11_Inv)
    /\ [][(script \in ClearFamily /\ InBody /\ Top.at = "scan" /\ Top.cnt < Top.n /\ Cur = MINUS)
             => /\ ByteOf(Cell(0)) >= 1
                /\ ByteOf(Cell(0))' = ByteOf(Cell(0)) - 1
                /\ Len(stack') = 2]_vars
    /\ (Ran /\ script \in ClearFamily) => <>Returned

C11_Witness ==
    /\ Returned
    /\ script = ClearScript(255)
    /\ ret = 0
    /\ Cell(0) = 0
    /\ ptr = 0

StuckFamily == {StuckScript(b) : b \in SeqsUpTo(SixWhitespace, MaxWsLen)} \cup {<<PLUS, LBR, RBR>>}

\* C12: a loop entered on a non-zero cell whose body is empty or whitespace
\* never ends: run does not return, the body is invoked again and again, the
\* '.' after the ']' is never executed and tape, pointer and I/O stay as they
\* were at loop entry.
C12_Inv ==
    (Ran /\ script \in StuckFamily) =>
        /\ pc \in {"main", "block"}
        /\ emitted = << >>
        /\ consumed = << >>
        /\ diag = << >>
        /\ ptr = 0
        /\ pc = "block" =>
              /\ stack[1].cnt <= 1
              /\ stack[1].cnt = 1 => mem = [i \in {0} |-> 1]

C12_LoopsForever ==
    /\ [](C12_Inv)
    /\ (Ran /\ script \in StuckFamily) => []<>(InBody)

C12_Witness ==
    /\ script = StuckScript(<<SP, LF>>)
    /\ InBody
    /\ Top.cnt = 2
    /\ Cell(0) = 1

\* C13: when the script file cannot be opened, main reports it and exits with
\* a non-zero code of its own, without another file operation and without
\* calling do_brainfuck.
C13_OpenFailureExits ==
    (argc = 2 /\ file = "null" /\ pc # "main") =>
        /\ pc = "exited"
        /\ stack = << >>
        /\ ret \notin {0, -1, -2, -3, -4}
        /\ diag = <<[kind |-> "open_failed", ch |-> 0]>>

\* C14: once a loop body has returned a non-zero status, the enclosing loop
\* tests and iterates no more, no instruction executes, and every enclosing
\* block returns that same status, up to run.
C14_Propagates ==
    [][(pc = "block" /\ ret # 0)
          => /\ Top.at = "ret"
             /\ ret' = ret
             /\ stack' = SubSeq(stack, 1, Len(stack) - 1)
             /\ diag' = diag
             /\ NoSideEffect]_vars

C14_Witness ==
    /\ script = LoopScript(<<LBR, 64, RBR>>)
    /\ pc = "block"
    /\ Len(stack) = 2
    /\ ret = -4

\* C15: the closing position the scan chooses for a '[' at position i is the
\* one of the reference matcher, the body executed is the span strictly
\* between the two brackets, and a loop that ends normally resumes the outer
\* scan just past the ']' with the current cell at 0.
C15_Inv ==
    pc = "block" =>
        \A k \in 1..Len(stack) :
            LET fr == stack[k]
                i == fr.code + fr.cnt
                end == fr.code + fr.n
            IN  fr.at \in {"loop", "ret"} =>
                    /\ CharAt(i) = LBR
                    /\ HasMatch(i, end)
                    /\ i + fr.loop_len = RefMatchPos(i, end)
                    /\ (fr.at = "ret" /\ k < Len(stack)) =>
                          /\ stack[k + 1].code = i + 1
                          /\ stack[k + 1].code + stack[k + 1].n = RefMatchPos(i, end)

C15_Matching ==
    /\ [](C15_Inv)
    /\ [][(pc = "block" /\ Top.at = "loop" /\ pc' = "block"
              /\ Len(stack') = Len(stack) /\ Top'.at = "scan")
             => /\ Top'.code + Top'.cnt
                    = RefMatchPos(Top.code + Top.cnt, Top.code + Top.n) + 1
                /\ Cell(ptr)' = 0]_vars

C15_Witness ==
    /\ script = LoopScript(<<LBR, MINUS, RBR>>)
    /\ AtTopScan
    /\ Top.cnt = 6
    /\ Cell(0) = 0

\* the positions the matching scan reads for the '[' at loop_begin
ScanReads(loop_begin, end) ==
    LET m == MatchScan(loop_begin, end)
    IN  {j \in (loop_begin + 1)..m.loop_end : j # end}

\* C16: in every invocation 0 <= cnt <= n, dispatch and the matching scan
\* read only characters of the block's range, and the range of a recursive
\* call lies strictly inside the range of its caller.
C16_InRange ==
    pc = "block" =>
        /\ \A k \in 1..Len(stack) :
              LET fr == stack[k]
              IN  /\ fr.cnt >= 0
                  /\ fr.cnt <= fr.n
                  /\ fr.code >= 0
                  /\ fr.code + fr.n <= Len(script)
                  /\ k > 1 =>
                        /\ fr.code > stack[k - 1].code
                        /\ fr.code + fr.n < stack[k - 1].code + stack[k - 1].n
        /\ Dispatching =>
              /\ Top.code + Top.cnt \in Top.code..(Top.code + Top.n - 1)
              /\ Cur = LBR =>
                    ScanReads(Top.code + Top.cnt, Top.code + Top.n)
                        \subseteq Top.code..(Top.code + Top.n - 1)

C16_Witness ==
    /\ script = MulScript(2, 2)
    /\ InBody
    /\ Top.cnt = Top.n
    /\ Top.code + Top.n = Len(script) - 1

\* the deepest bracket nesting of the script
NestingDepth ==
    LET opens == {j \in 0..(Len(script) - 1) : CharAt(j) = LBR}
        depth(j) == Count(LBR, 0, j) - Count(RBR, 0, j)
    IN  IF opens = {} THEN 0
        ELSE CHOOSE d \in {depth(j) : j \in opens} \cup {0} :
                 \A j \in opens : depth(j) <= d

\* C17: there are never more active invocations of do_brainfuck_block than 1
\* plus the deepest bracket nesting of the script, however often loops
\* iterate.
C17_StackBound == Len(stack) >= 2 => Len(stack) <= 1 + NestingDepth

C17_Witness ==
    /\ script = LoopScript(<<LBR, MINUS, RBR>>)
    /\ pc = "block"
    /\ Len(stack) = 3
    /\ NestingDepth = 2

\* C18: '>' and '<' move the pointer by exactly +1 and -1 from any position
\* and leave every cell as it is; nothing clamps, wraps or fails at the ends
\* of the tape: after '<' at cell 0 or '>' at cell 29999 the pointer is
\* outside 0..29999 and the run goes on with its status untouched.
C18_Moves ==
    [][(Dispatching /\ Cur \in {GT, LT})
          => /\ ptr' = IF Cur = GT THEN ptr + 1 ELSE ptr - 1
             /\ mem' = mem
             /\ pc' = "block"
             /\ ret' = ret
             /\ Len(stack') = Len(stack)
             /\ Top'.cnt = Top.cnt + 1
             /\ Top'.at = "scan"
             /\ diag' = diag
             /\ emitted' = emitted
             /\ consumed' = consumed]_vars

C18_Witness ==
    /\ script = <<PLUS, LBR, MINUS, GT, PLUS, RBR>>
    /\ pc = "block"
    /\ ptr = MAX_BRAINFUCK
    /\ ~InTape(ptr)
    /\ ret = 0
    /\ mem = << >>

\* the step executes the instruction under the cursor
Executes(chars) == Dispatching /\ Cur \in chars /\ pc' = "block"

\* cells the program has values for keep them, except those in `except`
CellsKept(except) ==
    /\ \A i \in (DOMAIN mem) \ except : Cell(i)' = Cell(i)
    /\ DOMAIN mem' \subseteq (DOMAIN mem) \cup {ptr}
    /\ (InTape(ptr) /\ ptr \notin except) => mem' = mem

\* C19: '+', '-', '.', ',' and whitespace never move the pointer; '+', '-'
\* and ',' change no cell but the one under the pointer; '.' and whitespace
\* change no cell; the emit hook is called once by each executed '.' and by
\* nothing else, the read hook once by each executed ',' and by nothing else.
C19_Frames ==
    [][/\ Executes({PLUS, MINUS, DOT, COMMA} \cup SixWhitespace) => ptr' = ptr
       /\ Executes({PLUS, MINUS, COMMA}) => CellsKept({ptr})
       /\ Executes({DOT} \cup SixWhitespace) => CellsKept({})
       /\ IF pc = "block" /\ Executes({DOT})
          THEN /\ Len(emitted') = Len(emitted) + 1
               /\ SubSeq(emitted', 1, Len(emitted)) = emitted
          ELSE emitted' = emitted
       /\ IF pc = "block" /\ Executes({COMMA})
          THEN /\ Len(consumed') = Len(consumed) + 1
               /\ SubSeq(consumed', 1, Len(consumed)) = consumed
          ELSE consumed' = consumed]_vars

C19_Witness ==
    /\ Returned
    /\ script = <<PLUS, DOT, SP>>
    /\ emitted = <<1>>
    /\ consumed = << >>
    /\ ptr = 0
    /\ Cell(0) = 1

\* the brackets of the span [a, b) match
BalancedSpan(a, b) ==
    /\ \A j \in a..(b - 1) : Count(LBR, a, j) >= Count(RBR, a, j)
    /\ Count(LBR, a, b - 1) = Count(RBR, a, b - 1)

\* C20: every span handed to a recursive invocation is bracket-balanced, so
\* the unmatched-bracket errors arise in the top-level block only and a loop
\* body returns 0 or -4, never -2 or -3.
C20_Inv ==
    pc = "block" =>
        \A k \in 2..Len(stack) :
            BalancedSpan(stack[k].code, stack[k].code + stack[k].n)

C20_BodyStatus ==
    /\ [](C20_Inv)
    /\ [][/\ (pc = "block" /\ Len(stack) >= 2 /\ Len(stack') < Len(stack))
                => ret' \in {0, -4}
          /\ (Dispatching /\ (Cur = RBR
                               \/ (Cur = LBR /\ ~HasMatch(Top.code + Top.cnt, Top.code + Top.n))))
                => Len(stack) = 1]_vars

C20_Witness ==
    /\ script = LoopScript(<<64>>)
    /\ pc = "block"
    /\ Len(stack) = 1
    /\ Top.at = "ret"
    /\ ret = -4

====
